---------------------------- MODULE Spec2Model ----------------------------
(***************************************************************************)
(* A model of the "Cities" word-chain bot (src/city.py): the text          *)
(* normaliser, the city index, the turn rules, the per-chat Game and the   *)
(* games/locks registries with the asyncio handlers that mutate them.      *)
(*                                                                         *)
(* Text is a sequence of code points.  Cyrillic code points are written    *)
(* in Latin transliteration, one token per code point:                     *)
(*   "a" "v" "z" "k" "l" "m" "n" "o" "p" "r" "s" "t" "u" "e"  the letters  *)
(*   "y" = U+044B, "'" = soft sign U+044C, "''" = hard sign U+044A,        *)
(*   "yo" = U+0451, capitals are the same tokens in upper case,            *)
(*   "w" = a Latin letter, "1" a digit, " " a space, "-" a hyphen,         *)
(*   "^:" = the combining diaeresis U+0308.                                *)
(***************************************************************************)
EXTENDS Integers, Sequences, FiniteSets, Bags, TLC

None == "None"

\* ------------------------------------------------------------------------
\* Code points
\* ------------------------------------------------------------------------
LowerCyr == {"a", "v", "e", "z", "k", "l", "m", "n", "o", "p", "r", "s", "t",
             "u", "y", "'", "''", "yo"}
UpperCyr == {"A", "K", "M", "N", "O", "T", "YO"}
Diaeresis == "^:"

\* str.lower() on one code point
LowerChar(ch) ==
    CASE ch = "A" -> "a"
      [] ch = "K" -> "k"
      [] ch = "M" -> "m"
      [] ch = "N" -> "n"
      [] ch = "O" -> "o"
      [] ch = "T" -> "t"
      [] ch = "YO" -> "yo"
      [] ch = "W" -> "w"
      [] OTHER -> ch

\* str.isspace() / str.isalpha() on one code point
IsSpace(ch) == ch = " "
IsAlpha(ch) == ch \in LowerCyr \cup UpperCyr \cup {"w", "W"}

\* the literal 'абвгдеёжзийклмнопрстуфхцчшщъыьэюя' of normalize_text
RussianLetters == LowerCyr

RECURSIVE NFC(_)
\* unicodedata.normalize("NFC", s): canonical composition
NFC(s) ==
    IF Len(s) < 2 THEN s
    ELSE IF s[2] = Diaeresis /\ s[1] = "e" THEN <<"yo">> \o NFC(SubSeq(s, 3, Len(s)))
    ELSE IF s[2] = Diaeresis /\ s[1] = "E" THEN <<"YO">> \o NFC(SubSeq(s, 3, Len(s)))
    ELSE <<s[1]>> \o NFC(Tail(s))

RECURSIVE LStrip(_)
LStrip(s) == IF s # <<>> /\ IsSpace(Head(s)) THEN LStrip(Tail(s)) ELSE s

RECURSIVE RStrip(_)
RStrip(s) ==
    IF s # <<>> /\ IsSpace(s[Len(s)]) THEN RStrip(SubSeq(s, 1, Len(s) - 1)) ELSE s

\* str.strip()
Strip(s) == RStrip(LStrip(s))

\* str.lower()
Lower(s) == [i \in 1..Len(s) |-> LowerChar(s[i])]

\* str.replace(old, new) for a one-code-point old
ReplaceChar(s, old, new) == [i \in 1..Len(s) |-> IF s[i] = old THEN new ELSE s[i]]

\* str.replace(old, "") for a one-code-point old
RemoveChar(s, old) == SelectSeq(s, LAMBDA ch : ch # old)

Range(s) == {s[i] : i \in 1..Len(s)}

\* "".join(c for c in s if c.isalpha() or c in 'абв...')
KeepLetters(s) == SelectSeq(s, LAMBDA ch : IsAlpha(ch) \/ ch \in RussianLetters)

\* the body of normalize_text (its except branch needs an argument that is
\* not a string, which the text of a message never is)
Normalize(s) ==
    KeepLetters(RemoveChar(RemoveChar(ReplaceChar(Lower(Strip(NFC(s))), "yo", "e"), "-"), " "))

\* ------------------------------------------------------------------------
\* The texts of the model: the city list and what the users send
\* ------------------------------------------------------------------------
Moskva == <<"M", "o", "s", "k", "v", "a">>
Anapa  == <<"A", "n", "a", "p", "a">>
Kazan  == <<"K", "a", "z", "a", "n", "'">>
Narva  == <<"N", "a", "r", "v", "a">>
Tula   == <<"T", "u", "l", "a">>

\* the list loaded from cities.json: four cities, one of them repeated in
\* another spelling, and one blank entry
RAW_CITIES == <<Moskva, Anapa, Kazan, Narva, <<" ", "a", "n", "a", "p", "a">>, <<" ">>>>

\* the message texts the users send
Texts == {Moskva, <<"a", "n", "a", "p", "a", " ">>, Kazan, Narva, Tula, <<"'">>}

\* further texts the pure functions are examined on
ProbeTexts ==
    Texts \cup Range(RAW_CITIES)
    \cup {<<>>, <<"1">>, <<"-", " ">>, <<"y", "'", "''">>, <<"n", "a", "-", "r", "v", "a", "1">>,
          <<"K", "a", "z", "a", "n">>, <<"w">>, <<"m", "e", "^:", "d">>, <<"YO", "l", "k", "a">>}

\* normalize_text, with the results for the texts of the model computed once
NormalizeMemo == [t \in ProbeTexts \cup {Normalize(t) : t \in ProbeTexts} |-> Normalize(t)]
normalize_text(s) == IF s \in DOMAIN NormalizeMemo THEN NormalizeMemo[s] ELSE Normalize(s)

\* ------------------------------------------------------------------------
\* City index
\* ------------------------------------------------------------------------
\* buckets keyed by the last character of the name
ByFirst_by_last(all_norm) ==
    [l \in {c[Len(c)] : c \in {d \in all_norm : d # <<>>}} |->
        {c \in all_norm : c # <<>> /\ c[Len(c)] = l}]

\* the loop "for c in all_norm: if c: by_first[c[0]].add(c)"
ByFirst(all_norm) ==
    [l \in {c[1] : c \in {d \in all_norm : d # <<>>}} |->
        {c \in all_norm : c # <<>> /\ c[1] = l}]

\* all_norm = {normalize_text(c) for c in cities if normalize_text(c)}
AllNorm(cities) ==
    {normalize_text(cities[i]) : i \in {j \in 1..Len(cities) : normalize_text(cities[j]) # <<>>}}

IndexOf(all_norm) == <<all_norm, ByFirst(all_norm)>>

build_city_index(cities) == IndexOf(AllNorm(cities))

CITIES == build_city_index(RAW_CITIES)[1]
CITIES_BY_FIRST == build_city_index(RAW_CITIES)[2]

\* ------------------------------------------------------------------------
\* Turn rules
\* ------------------------------------------------------------------------
TAIL_SKIP == {"'", "''", "y"}

\* the last character, whatever it is
LastNotSkipped_last(c) == IF c = <<>> THEN None ELSE c[Len(c)]

RECURSIVE LastNotSkipped(_)
\* "if not c: return None" and the loop "for ch in reversed(c)"
LastNotSkipped(c) ==
    IF c = <<>> THEN None
    ELSE IF c[Len(c)] \in TAIL_SKIP THEN LastNotSkipped(SubSeq(c, 1, Len(c) - 1))
    ELSE c[Len(c)]

last_working_letter(city) == LastNotSkipped(normalize_text(city))

\* str.startswith for a one-code-point prefix
StartsWith(city, letter) == city # <<>> /\ city[1] = letter

\* the checks of validate_move without the wrong_letter check
Checks_any_letter(game, city) ==
    IF city = <<>> \/ last_working_letter(city) = None THEN <<FALSE, "invalid_name">>
    ELSE IF city \notin CITIES THEN <<FALSE, "not_in_db">>
    ELSE IF city \in game.used THEN <<FALSE, "already_used">>
    ELSE <<TRUE, "ok">>

\* the checks of validate_move with the letter checked before the used set
Checks_letter_first(game, city) ==
    IF city = <<>> \/ last_working_letter(city) = None THEN <<FALSE, "invalid_name">>
    ELSE IF city \notin CITIES THEN <<FALSE, "not_in_db">>
    ELSE IF game.need_letter # None /\ ~StartsWith(city, game.need_letter)
         THEN <<FALSE, "wrong_letter">>
    ELSE IF city \in game.used THEN <<FALSE, "already_used">>
    ELSE <<TRUE, "ok">>

\* the checks of validate_move on city = normalize_text(raw_city)
Checks(game, city) ==
    IF city = <<>> \/ last_working_letter(city) = None THEN <<FALSE, "invalid_name">>
    ELSE IF city \notin CITIES THEN <<FALSE, "not_in_db">>
    ELSE IF city \in game.used THEN <<FALSE, "already_used">>
    ELSE IF game.need_letter # None /\ ~StartsWith(city, game.need_letter)
         THEN <<FALSE, "wrong_letter">>
    ELSE <<TRUE, "ok">>

validate_move(game, raw_city) == Checks(game, normalize_text(raw_city))

\* candidates = CITIES_BY_FIRST.get(letter, set())
Candidates(letter) ==
    IF letter \in DOMAIN CITIES_BY_FIRST THEN CITIES_BY_FIRST[letter] ELSE {}

\* has_moves that does not take the used cities away
has_moves_ignores_used(game) ==
    IF game.need_letter = None THEN TRUE
    ELSE Cardinality(Candidates(game.need_letter)) > 0

has_moves(game) ==
    IF game.need_letter = None THEN TRUE
    ELSE Cardinality(Candidates(game.need_letter) \ game.used) > 0

\* ------------------------------------------------------------------------
\* Bounds of the model
\* ------------------------------------------------------------------------
NumChats == 2      \* chat identifiers 1..NumChats
NumUsers == 3      \* user identifiers 1..NumUsers
MaxProcs == 3      \* handler coroutines in flight at the same time

ChatIds == 1..NumChats
Users == 1..NumUsers

\* ------------------------------------------------------------------------
\* Game
\* ------------------------------------------------------------------------
\* user.username or user.first_name or "Аноним"
UserName(u) == <<"name", u>>

\* Game(players=[user.id], usernames={user.id: ...}, started=False); sid is
\* the identity of the Python object, log the history of add_used calls
Game(u, sid) ==
    [players |-> <<u>>, usernames |-> [p \in {u} |-> UserName(u)], used |-> {},
     turn_idx |-> 0, need_letter |-> None, started |-> FALSE, sid |-> sid,
     log |-> <<>>]

current_player(g) ==
    IF g.players = <<>> THEN None
    ELSE g.players[(g.turn_idx % Len(g.players)) + 1]

\* next_turn without the modulo
next_turn_unbounded(g) == [g EXCEPT !.turn_idx = g.turn_idx + 1]

next_turn(g) == [g EXCEPT !.turn_idx = (g.turn_idx + 1) % Len(g.players)]

\* add_used that replaces the set by the new city
add_used_replaces(g, city_norm) ==
    [g EXCEPT !.used = {city_norm}, !.log = Append(g.log, city_norm)]

add_used(g, city_norm) ==
    [g EXCEPT !.used = g.used \cup {city_norm}, !.log = Append(g.log, city_norm)]

\* ------------------------------------------------------------------------
\* State
\* ------------------------------------------------------------------------
VARIABLES
    chats,      \* the chats the bot receives updates from
    games,      \* games: Dict[int, Game]
    locks,      \* locks: Dict[int, asyncio.Lock]
    orphans,    \* the asyncio.Lock objects that are in use but not in locks
    ev          \* what the last step did: the update handled and its answer

vars == <<chats, games, locks, orphans, ev>>

\* An asyncio.Lock: owner is the coroutine that holds it (or was woken to
\* take it), waiters the FIFO of coroutines suspended in acquire().  A
\* suspended coroutine is the handler it runs and its chat; the user and the
\* text of its update are first read inside the block and are drawn there.
NoOwner == [pc |-> "free"]
FreeLock == [owner |-> NoOwner, waiters |-> <<>>]

\* acquire() returns at once only when the lock is not locked and nobody waits
Busy(L) == L.owner # NoOwner \/ L.waiters # <<>>

\* a coroutine suspended inside the "async with" block, in reply_text; sid
\* is the Game the coroutine of a winning move holds in g
Inside(L) == L.owner.pc \in {"reply", "winReply"}

\* a release() that leaves the lock with its holder
Release_keeps(L) == L

\* Lock.release(): wake the first waiter, if any
Release(L) ==
    IF L.waiters = <<>> THEN FreeLock
    ELSE [owner |-> [pc |-> "woken", op |-> Head(L.waiters).op,
                     chat |-> Head(L.waiters).chat],
          waiters |-> Tail(L.waiters)]

AllLocks == {locks[c] : c \in DOMAIN locks} \cup BagToSet(orphans)

\* a lock nobody holds, waits for or has registered is garbage
AddOrphan(st, L) == IF Busy(L) THEN st (+) SetToBag({L}) ELSE st

Del(d, k) == [j \in DOMAIN d \ {k} |-> d[j]]
Put(d, k, v) == [j \in DOMAIN d \cup {k} |-> IF j = k THEN v ELSE d[j]]

\* the handlers of chat c that hold or await lock L
LockLoad(L, c) ==
    Cardinality({i \in 1..Len(L.waiters) : L.waiters[i].chat = c})
    + (IF L.owner # NoOwner /\ L.owner.chat = c THEN 1 ELSE 0)

RECURSIVE SumLoad(_, _)
SumLoad(B, c) ==
    IF BagToSet(B) = {} THEN 0
    ELSE LET L == CHOOSE l \in BagToSet(B) : TRUE
         IN  LockLoad(L, c) + SumLoad(B (-) SetToBag({L}), c)

\* the handlers of chat c in flight
InFlight(c) ==
    SumLoad(orphans, c)
    + (IF c \in DOMAIN locks THEN LockLoad(locks[c], c) ELSE 0)

RECURSIVE Total(_)
Total(S) == IF S = {} THEN 0
            ELSE LET c == CHOOSE k \in S : TRUE IN InFlight(c) + Total(S \ {c})

\* id() of a new Game: an identity no live reference has
SidsInUse ==
    {games[c].sid : c \in DOMAIN games}
    \cup {L.owner.sid : L \in {l \in AllLocks : l.owner.pc = "winReply"}}
NewSid == CHOOSE n \in 0..(2 * MaxProcs + NumChats) :
              n \notin SidsInUse /\ \A m \in 0..(n - 1) : m \in SidsInUse

\* ------------------------------------------------------------------------
\* The bodies of the "async with" blocks, up to their first suspension
\* ------------------------------------------------------------------------
\* A result: the games dict, what happens to locks[chat] (eff), where the
\* coroutine is next (pc) and what it answers (out, winner; reason is the
\* reason code of validate_move and, for a reset, what was discarded):
\*   pc "reply"     suspended in reply_text inside the block, then returns
\*   pc "winReply"  suspended in the winner's reply_text inside the block
\*   pc "out"       left the block; the reply_text after it touches no state
\*   pc "return"    left the block and returned without a reply
\*   pc "raise"     left the block with an exception
Result(G, eff, pc, out, reason, winner) ==
    [games |-> G, eff |-> eff, pc |-> pc, out |-> out, reason |-> reason,
     winner |-> winner]

\* cmd_start that answers "already created" after it replaced the game
StartBody_overwrites(G, req, sid) ==
    IF req.chat \in DOMAIN G
    THEN Result(Put(G, req.chat, Game(req.user, sid)), "keep", "reply",
                "already_created", None, 0)
    ELSE Result(Put(G, req.chat, Game(req.user, sid)), "replace", "out",
                "lobby_created", None, 0)

StartBody(G, req, sid) ==
    IF req.chat \in DOMAIN G
    THEN Result(G, "keep", "reply", "already_created", None, 0)
    ELSE Result(Put(G, req.chat, Game(req.user, sid)), "replace", "out",
                "lobby_created", None, 0)

\* cmd_join without the check for a participant who is already in
AlreadyIn_never(g, u) == FALSE

\* "if user.id in g.players" and "if len(g.players) >= 2" of cmd_join
AlreadyIn(g, u) == u \in Range(g.players)
LobbyFull(g) == Len(g.players) >= 2

\* g.players.append(user.id); g.usernames[user.id] = ...; g.started = True
Joined(g, u) ==
    [g EXCEPT !.players = Append(g.players, u),
              !.usernames = Put(g.usernames, u, UserName(u)),
              !.started = TRUE]

\* cmd_join on g = games.get(chat_id)
JoinOnGame(G, req, g) ==
    IF AlreadyIn(g, req.user)
    THEN Result(G, "keep", "reply", "already_in_game", None, 0)
    ELSE IF LobbyFull(g)
    THEN Result(G, "keep", "reply", "lobby_full", None, 0)
    ELSE Result(Put(G, req.chat, Joined(g, req.user)), "keep", "out", "joined", None, 0)

JoinBody(G, req) ==
    IF req.chat \notin DOMAIN G
    THEN Result(G, "keep", "reply", "no_active_game", None, 0)
    ELSE JoinOnGame(G, req, G[req.chat])

\* handle_text without the check of whose turn it is
NotCurrent_never(g, u) == FALSE

\* the winner taken after next_turn: the player whose turn it has become
Winner_next(u, g) == current_player(g)

\* "if user.id != g.current_player()" and "winner = user" of handle_text
NotCurrent(g, u) == u # current_player(g)
Winner(u, g) == u

\* "if not has_moves(g)": g3 is the game after the accepted move
AfterMove(G, req, reason, g3) ==
    IF ~has_moves(g3)
    THEN Result(Put(G, req.chat, g3), "keep", "winReply", "win", reason,
                Winner(req.user, g3))
    ELSE Result(Put(G, req.chat, g3), "keep", "out", "move_accepted", reason, 0)

\* an accepted move that does not record its city
Played_without_add(g, city_norm) ==
    next_turn([g EXCEPT !.need_letter = last_working_letter(city_norm),
                        !.log = Append(g.log, city_norm)])

\* g.add_used(city_norm); g.need_letter = last_working_letter(city_norm);
\* g.next_turn()
Played(g, city_norm) ==
    next_turn([add_used(g, city_norm) EXCEPT
                  !.need_letter = last_working_letter(city_norm)])

\* handle_text from "ok, reason = validate_move(g, text)" on
Move(G, req, g, v, city_norm) ==
    IF ~v[1]
    THEN \* the reasons dict evaluates g.need_letter.upper()
         IF g.need_letter = None
         THEN Result(G, "keep", "raise", "error", v[2], 0)
         ELSE Result(G, "keep", "reply", "move_rejected", v[2], 0)
    ELSE AfterMove(G, req, v[2], Played(g, city_norm))

\* handle_text on g = games.get(chat_id)
TextOnGame(G, req, g) ==
    IF ~g.started \/ Len(g.players) < 2
    THEN Result(G, "keep", "reply", "waiting_for_player", None, 0)
    ELSE IF req.user \notin Range(g.players)
    THEN Result(G, "keep", "reply", "not_in_game", None, 0)
    ELSE IF NotCurrent(g, req.user)
    THEN Result(G, "keep", "reply", "not_your_turn", None, 0)
    ELSE Move(G, req, g, validate_move(g, req.text), normalize_text(req.text))

TextBody(G, req) ==
    IF req.chat \notin DOMAIN G
    THEN Result(G, "keep", "return", "no_active_game", None, 0)
    ELSE TextOnGame(G, req, G[req.chat])

\* what games.pop(chat_id, None) of cmd_restart discards
Discarded(G, c) ==
    IF c \notin DOMAIN G THEN None ELSE IF G[c].started THEN "active" ELSE "lobby"

\* cmd_restart that keeps a session nobody has joined yet
RestartBody_keeps_lobby(G, req) ==
    IF req.chat \in DOMAIN G /\ ~G[req.chat].started
    THEN Result(G, "keep", "out", "reset", "lobby", 0)
    ELSE Result(IF req.chat \in DOMAIN G THEN Del(G, req.chat) ELSE G,
                "pop", "out", "reset", Discarded(G, req.chat), 0)

RestartBody(G, req) ==
    Result(IF req.chat \in DOMAIN G THEN Del(G, req.chat) ELSE G,
           "pop", "out", "reset", Discarded(G, req.chat), 0)

Body(G, req, sid) ==
    CASE req.op = "start"   -> StartBody(G, req, sid)
      [] req.op = "join"    -> JoinBody(G, req)
      [] req.op = "text"    -> TextBody(G, req)
      [] req.op = "restart" -> RestartBody(G, req)

Event(req, r) ==
    [op |-> req.op, chat |-> req.chat, user |-> req.user, text |-> req.text,
     out |-> r.out, reason |-> r.reason, winner |-> r.winner]

\* what a step that answers nothing leaves in ev
Quiet(op, c, out) ==
    [op |-> op, chat |-> c, user |-> 0, text |-> <<>>, out |-> out,
     reason |-> None, winner |-> 0]

\* ------------------------------------------------------------------------
\* Leaving the "async with" block: the effect on locks[chat], then release
\* ------------------------------------------------------------------------
\* L is the lock the coroutine holds; inReg tells whether L is locks[c];
\* lk and st are locks and orphans without L (when inReg, lk[c] stands for L)
Unregistered(c, inReg, lk, st) ==
    IF ~inReg /\ c \in DOMAIN lk THEN AddOrphan(st, lk[c]) ELSE st

Leave(c, L, inReg, eff, lk, st) ==
    CASE eff = "keep" ->
           IF inReg THEN <<Put(lk, c, Release(L)), st>>
           ELSE <<lk, AddOrphan(st, Release(L))>>
      [] eff = "pop" ->
           <<Del(lk, c), AddOrphan(Unregistered(c, inReg, lk, st), Release(L))>>
      [] eff = "replace" ->
           <<Put(lk, c, FreeLock), AddOrphan(Unregistered(c, inReg, lk, st), Release(L))>>

\* the coroutine stays in the block, suspended in reply_text
Held(L, r, c) ==
    [L EXCEPT !.owner = [pc |-> r.pc, chat |-> c,
                         sid |-> IF r.pc = "winReply" THEN r.games[c].sid ELSE 0]]

SetLocks(after) == locks' = after[1] /\ orphans' = after[2]

\* the block of req under lock L, from its entry to its first suspension,
\* r being what the body does
RunWith(r, req, L, inReg, lk, st) ==
    /\ games' = r.games
    /\ ev' = Event(req, r)
    /\ IF r.pc \in {"reply", "winReply"}
       THEN /\ locks' = IF inReg THEN Put(lk, req.chat, Held(L, r, req.chat)) ELSE lk
            /\ orphans' = IF inReg THEN st ELSE st (+) SetToBag({Held(L, r, req.chat)})
       ELSE SetLocks(Leave(req.chat, L, inReg, r.eff, lk, st))

Run(req, L, inReg, lk, st) == RunWith(Body(games, req, NewSid), req, L, inReg, lk, st)

\* "async with <lock>:" for a handler that has just been called
Enter(req, L, inReg) ==
    IF Busy(L)
    THEN \* only a registered lock can be busy here
         /\ locks' = [locks EXCEPT ![req.chat].waiters =
                         Append(@, [op |-> req.op, chat |-> req.chat])]
         /\ ev' = Quiet(req.op, req.chat, "waiting")
         /\ UNCHANGED <<games, orphans>>
    ELSE Run(req, L, inReg, IF inReg THEN Put(locks, req.chat, L) ELSE locks, orphans)

\* the fields of the update a handler reads: cmd_restart reads no user
\* (user 0), only handle_text reads the text
Request(op, c, u, t) == [op |-> op, chat |-> c, user |-> u, text |-> t]
Reads(op, u, t) == (u = 0) = (op = "restart") /\ (t = <<>>) = (op # "text")

\* one lock for all chats: the lock registered first
LockOf_shared(c) ==
    IF DOMAIN locks # {} THEN locks[CHOOSE k \in DOMAIN locks : TRUE] ELSE FreeLock

\* locks.get(chat_id, asyncio.Lock())
LockOf(c) == IF c \in DOMAIN locks THEN locks[c] ELSE FreeLock

CanArrive == Total(chats) < MaxProcs

\* ------------------------------------------------------------------------
\* Handlers
\* ------------------------------------------------------------------------
\* async with locks.setdefault(chat_id, asyncio.Lock())
cmd_start(c, u) ==
    /\ CanArrive
    /\ Enter(Request("start", c, u, <<>>), LockOf(c), TRUE)
    /\ UNCHANGED chats

\* cmd_join that registers its lock as cmd_start does (setdefault)
cmd_join_setdefault(c, u) ==
    /\ CanArrive
    /\ Enter(Request("join", c, u, <<>>), LockOf(c), TRUE)
    /\ UNCHANGED chats

\* async with locks.get(chat_id, asyncio.Lock())
cmd_join(c, u) ==
    /\ CanArrive
    /\ Enter(Request("join", c, u, <<>>), LockOf(c), c \in DOMAIN locks)
    /\ UNCHANGED chats

handle_text(c, u, t) ==
    /\ CanArrive
    /\ Enter(Request("text", c, u, t), LockOf(c), c \in DOMAIN locks)
    /\ UNCHANGED chats

cmd_restart(c) ==
    /\ CanArrive
    /\ Enter(Request("restart", c, 0, <<>>), LockOf(c), c \in DOMAIN locks)
    /\ UNCHANGED chats

\* reads games without a lock; its reply_text touches no state
cmd_status(c) ==
    /\ ev' = Quiet("status", c, IF c \in DOMAIN games THEN "status_snapshot"
                                 ELSE "no_active_game")
    /\ UNCHANGED <<chats, games, locks, orphans>>

\* a waiter that release() woke is scheduled and enters its block
WakeRegistered(c, u, t) ==
    /\ c \in DOMAIN locks
    /\ locks[c].owner.pc = "woken"
    /\ Reads(locks[c].owner.op, u, t)
    /\ Run(Request(locks[c].owner.op, locks[c].owner.chat, u, t),
           locks[c], TRUE, locks, orphans)
    /\ UNCHANGED chats

WakeOrphan(L, u, t) ==
    /\ L \in BagToSet(orphans)
    /\ L.owner.pc = "woken"
    /\ Reads(L.owner.op, u, t)
    /\ Run(Request(L.owner.op, L.owner.chat, u, t),
           L, FALSE, locks, orphans (-) SetToBag({L}))
    /\ UNCHANGED chats

\* reply_text inside the block returns; the rest of the block runs
Resume(L, inReg, lk, st, c) ==
    IF L.owner.pc = "reply"
    THEN \* return
         /\ SetLocks(Leave(c, L, inReg, "keep", lk, st))
         /\ ev' = Quiet("resume", c, "done")
         /\ UNCHANGED games
    ELSE \* del games[chat_id]; del locks[chat_id]; return
         IF c \notin DOMAIN games
         THEN /\ SetLocks(Leave(c, L, inReg, "keep", lk, st))
              /\ ev' = Quiet("cleanup", c, "error")
              /\ UNCHANGED games
         ELSE IF c \notin DOMAIN lk
         THEN /\ SetLocks(Leave(c, L, inReg, "keep", lk, st))
              /\ games' = Del(games, c)
              /\ ev' = Quiet("cleanup", c, "error")
         ELSE /\ SetLocks(Leave(c, L, inReg, "pop", lk, st))
              /\ games' = Del(games, c)
              /\ ev' = Quiet("cleanup", c, "done")

ResumeRegistered(c) ==
    /\ c \in DOMAIN locks
    /\ Inside(locks[c])
    /\ Resume(locks[c], TRUE, locks, orphans, c)
    /\ UNCHANGED chats

ResumeOrphan(L) ==
    /\ L \in BagToSet(orphans)
    /\ Inside(L)
    /\ Resume(L, FALSE, locks, orphans (-) SetToBag({L}), L.owner.chat)
    /\ UNCHANGED chats

NoEvent == Quiet("none", 0, "done")

InitWith(cs) ==
    /\ chats = cs
    /\ games = <<>>
    /\ locks = <<>>
    /\ orphans = EmptyBag
    /\ ev = NoEvent

\* one chat
Init == InitWith({1})

Next ==
    \/ \E c \in chats, u \in Users : cmd_start(c, u)
    \/ \E c \in chats, u \in Users : cmd_join(c, u)
    \/ \E c \in chats, u \in Users, t \in Texts : handle_text(c, u, t)
    \/ \E c \in chats : cmd_restart(c)
    \/ \E c \in chats : cmd_status(c)
    \/ \E c \in chats, u \in Users \cup {0}, t \in Texts \cup {<<>>} :
          WakeRegistered(c, u, t)
    \/ \E L \in BagToSet(orphans), u \in Users \cup {0}, t \in Texts \cup {<<>>} :
          WakeOrphan(L, u, t)
    \/ \E c \in chats : ResumeRegistered(c)
    \/ \E L \in BagToSet(orphans) : ResumeOrphan(L)

Spec == Init /\ [][Next]_vars

TypeOK ==
    /\ DOMAIN games \subseteq ChatIds
    /\ DOMAIN locks \subseteq ChatIds

\* ------------------------------------------------------------------------
\* Properties
\* ------------------------------------------------------------------------
\* the last step answered a move with "accepted" (with or without a winner)
Accepted(e) == e.op = "text" /\ e.out \in {"move_accepted", "win"}

\* C1: in every session the accepted cities form a legal chain: each is in
\* the dictionary, differs from all the earlier ones, and every one but the
\* first begins with last_working_letter of the one accepted before it; the
\* used set holds exactly the accepted cities.
LegalChain(log) ==
    /\ \A i \in 1..Len(log) : log[i] = normalize_text(log[i]) /\ log[i] \in CITIES
    /\ \A i, j \in 1..Len(log) : i # j => log[i] # log[j]
    /\ \A i \in 2..Len(log) : StartsWith(log[i], last_working_letter(log[i - 1]))

C1_LegalChain ==
    \A c \in DOMAIN games :
        LegalChain(games[c].log) /\ games[c].used = Range(games[c].log)

\* a session in which three cities were accepted in a row
C1_Witness ==
    \E c \in DOMAIN games :
        /\ Len(games[c].log) = 3
        /\ Accepted(ev) /\ ev.chat = c
        /\ normalize_text(ev.text) = games[c].log[3]

\* C2: validate_move answers with the first failing check in the order
\* invalid_name, not_in_db, already_used, wrong_letter, and with ok when none
\* fails; wrong_letter is never answered while no letter is required; the
\* reason handle_text got for a rejected move is that answer.
ReasonOrder == <<"invalid_name", "not_in_db", "already_used", "wrong_letter">>

Fails(g, t, k) ==
    LET n == normalize_text(t)
    IN  CASE k = 1 -> n = <<>> \/ \A i \in 1..Len(n) : n[i] \in TAIL_SKIP
          [] k = 2 -> n \notin CITIES
          [] k = 3 -> n \in g.used
          [] k = 4 -> g.need_letter # None /\ (n = <<>> \/ n[1] # g.need_letter)

FirstFailing(g, t) ==
    LET failing == {k \in 1..4 : Fails(g, t, k)}
    IN  IF failing = {} THEN <<TRUE, "ok">>
        ELSE <<FALSE, ReasonOrder[CHOOSE k \in failing : \A m \in failing : k <= m]>>

C2_FirstFailingCheck ==
    /\ \A c \in DOMAIN games : \A t \in ProbeTexts :
          /\ validate_move(games[c], t) = FirstFailing(games[c], t)
          /\ games[c].need_letter = None => validate_move(games[c], t)[2] # "wrong_letter"
    /\ (ev.op = "text" /\ ev.reason # None /\ ~Accepted(ev))
          => /\ ev.chat \in DOMAIN games
             /\ ev.reason = FirstFailing(games[ev.chat], ev.text)[2]
             /\ ev.reason # "ok"

\* a used city that also starts with the wrong letter was answered already_used
C2_Witness ==
    /\ ev.op = "text" /\ ev.out = "move_rejected" /\ ev.reason = "already_used"
    /\ ev.chat \in DOMAIN games
    /\ Fails(games[ev.chat], ev.text, 3) /\ Fails(games[ev.chat], ev.text, 4)

\* C3: a rejected operation changes neither games nor the identifiers
\* registered in locks: a move rejected by validate_move, a move of a
\* sender who is not the current player or not a participant, a move in a
\* lobby, a join of a participant or on a full session, a join or move
\* without a session, a start on an existing session; nor does the return of
\* the rejected handler after its reply.
RejectOuts ==
    {"already_created", "no_active_game", "already_in_game", "lobby_full",
     "waiting_for_player", "not_in_game", "not_your_turn", "move_rejected", "error"}

Rejected(e) == e.op \in {"start", "join", "text"} /\ e.out \in RejectOuts

C3_RejectionChangesNothing ==
    [][(Rejected(ev') \/ ev'.op = "resume")
          => games' = games /\ DOMAIN locks' = DOMAIN locks]_vars

\* a move was rejected with wrong_letter and the session still requires it
C3_Witness ==
    /\ Rejected(ev) /\ ev.reason = "wrong_letter"
    /\ ev.chat \in DOMAIN games
    /\ ev.user = current_player(games[ev.chat])
    /\ ~StartsWith(normalize_text(ev.text), games[ev.chat].need_letter)

\* C4: a move is accepted only from the current player of a started
\* session; a move of anybody else is never given to validate_move (it gets
\* no reason code), changes no session, and in a started session is answered
\* not_your_turn (a participant) or not_in_game (anybody else).
C4_OnlyCurrentPlayerMoves ==
    [][(ev'.op = "text" /\ ev'.out # "waiting")
          => IF ev'.chat \notin DOMAIN games THEN ~Accepted(ev') /\ games' = games
             ELSE LET g == games[ev'.chat] IN
                  /\ Accepted(ev') => g.started /\ ev'.user = current_player(g)
                  /\ ev'.user # current_player(g)
                       => /\ ev'.reason = None
                          /\ games' = games
                          /\ ev'.out \in {"waiting_for_player", "not_in_game", "not_your_turn"}
                  /\ (g.started /\ Len(g.players) = 2 /\ ev'.user # current_player(g))
                       => ev'.out = IF ev'.user \in Range(g.players)
                                    THEN "not_your_turn" ELSE "not_in_game"]_vars

\* the participant whose turn it is not sent a text that is no city name
C4_Witness ==
    /\ ev.op = "text" /\ ev.out = "not_your_turn"
    /\ ev.chat \in DOMAIN games
    /\ validate_move(games[ev.chat], ev.text)[2] = "invalid_name"

\* C5: an accepted move in a session of N participants is made by the
\* current player and passes the turn to the participant at (turn index + 1)
\* mod N, who is somebody else; the first accepted move is made by the
\* participant who started the session; nothing else changes the turn
\* index, which stays in 0..N-1.
C5_TurnOrder ==
    [][/\ \A c \in DOMAIN games \cap DOMAIN games' :
             /\ IF Accepted(ev') /\ ev'.chat = c
                THEN /\ ev'.user = current_player(games[c])
                     /\ games'[c].turn_idx
                          = (games[c].turn_idx + 1) % Len(games[c].players)
                     /\ current_player(games'[c])
                          = games[c].players[((games[c].turn_idx + 1)
                                                 % Len(games[c].players)) + 1]
                     /\ current_player(games'[c]) # ev'.user
                     /\ (games[c].log = <<>>) => (ev'.user = games[c].players[1])
                     /\ games'[c].players = games[c].players
                ELSE /\ games'[c].turn_idx = games[c].turn_idx
                     /\ games'[c].log = games[c].log
                     /\ games'[c].players[1] = games[c].players[1]
                     /\ games[c].started => (games'[c].players = games[c].players)
             /\ games'[c].turn_idx \in 0..(Len(games'[c].players) - 1)
       /\ (ev'.op = "start" /\ ev'.out = "lobby_created")
             => (games'[ev'.chat].players = <<ev'.user>>)]_vars

\* the second move was accepted from the participant who joined, and the
\* turn is back with the one who started
C5_Witness ==
    /\ Accepted(ev) /\ ev.chat \in DOMAIN games
    /\ Len(games[ev.chat].log) = 2
    /\ ev.user = games[ev.chat].players[2]
    /\ current_player(games[ev.chat]) = games[ev.chat].players[1]

\* C6: an accepted move declares a winner exactly when has_moves is false
\* after it; the winner is the sender of the move, who was the current
\* player and no longer is; when the handler of a winning move is over the
\* chat has no entry in games and none in locks.
C6_MoverWins ==
    [][/\ (Accepted(ev') /\ ev'.chat \in DOMAIN games')
            => /\ (ev'.out = "win") = ~has_moves(games'[ev'.chat])
               /\ ev'.out = "win"
                    => /\ ev'.winner = ev'.user
                       /\ ev'.chat \in DOMAIN games
                       /\ ev'.winner = current_player(games[ev'.chat])
                       /\ ev'.winner # current_player(games'[ev'.chat])
       /\ ev'.op = "cleanup"
            => ev'.chat \notin DOMAIN games' /\ ev'.chat \notin DOMAIN locks']_vars

\* the handler of a winning move has removed the session and is over
C6_Witness ==
    /\ ev.op = "cleanup" /\ ev.out = "done"
    /\ ev.chat \notin DOMAIN games /\ ev.chat \notin DOMAIN locks

\* C7: a registered session is a lobby of one participant that is not
\* started or a started session of two distinct participants; the
\* participants' names are kept for exactly the participants.
C7_LobbyOrActive ==
    \A c \in DOMAIN games :
        LET g == games[c] IN
        /\ \/ Len(g.players) = 1 /\ ~g.started
           \/ Len(g.players) = 2 /\ g.players[1] # g.players[2] /\ g.started
        /\ DOMAIN g.usernames = Range(g.players)

\* a join was refused on a session that has two participants
C7_Witness ==
    /\ ev.op = "join" /\ ev.out = "lobby_full"
    /\ ev.chat \in DOMAIN games
    /\ Len(games[ev.chat].players) = 2
    /\ ev.user \notin Range(games[ev.chat].players)

\* C8: a reset leaves the chat without entry in games and in locks,
\* whatever it finds; a start that creates a session creates a lobby of the
\* starter alone with an empty used set, no required letter and turn index
\* 0, in which every city of the dictionary is a valid move.
C8_ResetDiscards ==
    [][/\ (ev'.op = "restart" /\ ev'.out = "reset")
            => ev'.chat \notin DOMAIN games' /\ ev'.chat \notin DOMAIN locks'
       /\ (ev'.op = "start" /\ ev'.out = "lobby_created")
            => /\ ev'.chat \notin DOMAIN games
               /\ ev'.chat \in DOMAIN games'
               /\ LET h == games'[ev'.chat] IN
                  /\ h.players = <<ev'.user>> /\ ~h.started
                  /\ h.used = {} /\ h.need_letter = None /\ h.turn_idx = 0
                  /\ \A t \in Texts : normalize_text(t) \in CITIES
                                         => validate_move(h, t) = <<TRUE, "ok">>]_vars

\* a reset has discarded a started session
C8_Witness ==
    /\ ev.op = "restart" /\ ev.out = "reset" /\ ev.reason = "active"
    /\ ev.chat \notin DOMAIN games /\ ev.chat \notin DOMAIN locks

\* C9: at most one handler of a chat is inside its "async with" block.
InsideCount(c) ==
    Cardinality({p \in BagToSet(orphans) \X (1..MaxProcs) :
                    /\ p[2] <= CopiesIn(p[1], orphans)
                    /\ Inside(p[1]) /\ p[1].owner.chat = c})
    + (IF c \in DOMAIN locks /\ Inside(locks[c]) /\ locks[c].owner.chat = c THEN 1 ELSE 0)

C9_MutualExclusion == \A c \in ChatIds : InsideCount(c) <= 1

\* C10: a move is accepted only if validate_move accepts it in the session
\* as the moves accepted before have left it; the accepted move adds its
\* city to used, sets the required letter and advances the turn index once,
\* so that the turn index always is the number of accepted moves modulo the
\* number of participants.
C10_OneMovePerTurn ==
    [][/\ Accepted(ev')
            => /\ ev'.chat \in DOMAIN games /\ ev'.chat \in DOMAIN games'
               /\ LET g == games[ev'.chat]
                      h == games'[ev'.chat]
                      city == normalize_text(ev'.text)
                  IN  /\ validate_move(g, ev'.text) = <<TRUE, "ok">>
                      /\ city \notin g.used
                      /\ h.used = g.used \cup {city}
                      /\ h.log = Append(g.log, city)
                      /\ h.need_letter = last_working_letter(city)
       /\ \A c \in DOMAIN games' :
             /\ games'[c].turn_idx = Len(games'[c].log) % Len(games'[c].players)
             /\ Cardinality(games'[c].used) = Len(games'[c].log)]_vars

\* a move was accepted while another move waited for the lock, and the
\* waiting one has been woken
C10_Witness ==
    /\ Accepted(ev) /\ ev.chat \in DOMAIN locks
    /\ locks[ev.chat].owner.pc = "woken"
    /\ locks[ev.chat].owner.op = "text"

\* ------------------------------------------------------------------------
\* Scheduling
\* ------------------------------------------------------------------------
\* The locks a handler of the chats served can hold unregistered: an owner
\* suspended in reply_text or woken by release(), and the waiters left.
Ops == {"start", "join", "text", "restart"}

WaiterSeqs(cs) ==
    UNION {[1..n -> [op : Ops, chat : cs]] : n \in 0..(MaxProcs - 2)}

OwnersInside(cs) ==
    [pc : {"reply"}, chat : cs, sid : {0}]
    \cup [pc : {"winReply"}, chat : cs, sid : 0..(MaxProcs - 1)]

OwnersWoken(cs) == [pc : {"woken"}, op : Ops, chat : cs]

LocksInside(cs) == [owner : OwnersInside(cs), waiters : WaiterSeqs(cs)]
LocksWoken(cs) == [owner : OwnersWoken(cs), waiters : WaiterSeqs(cs)]

\* the coroutine the event loop woke on lock locks[c], or on L, runs
RunWokenRegistered(c) ==
    \E u \in Users \cup {0}, t \in Texts \cup {<<>>} : WakeRegistered(c, u, t)

RunWokenOrphan(L) ==
    \E u \in Users \cup {0}, t \in Texts \cup {<<>>} : WakeOrphan(L, u, t)

\* The event loop: every reply_text that is awaited returns and every
\* coroutine that was woken is run.
Fairness(cs) ==
    /\ \A c \in cs : WF_vars(ResumeRegistered(c)) /\ WF_vars(RunWokenRegistered(c))
    /\ \A L \in LocksInside(cs) : WF_vars(ResumeOrphan(L))
    /\ \A L \in LocksWoken(cs) : WF_vars(RunWokenOrphan(L))

\* The handlers on the updates of the users us with the texts ts
NextOn(us, ts) ==
    \/ \E c \in chats, u \in us : cmd_start(c, u)
    \/ \E c \in chats, u \in us : cmd_join(c, u)
    \/ \E c \in chats, u \in us, t \in ts : handle_text(c, u, t)
    \/ \E c \in chats : cmd_restart(c)
    \/ \E c \in chats : cmd_status(c)
    \/ \E c \in chats, u \in us \cup {0}, t \in ts \cup {<<>>} :
          WakeRegistered(c, u, t)
    \/ \E L \in BagToSet(orphans), u \in us \cup {0}, t \in ts \cup {<<>>} :
          WakeOrphan(L, u, t)
    \/ \E c \in chats : ResumeRegistered(c)
    \/ \E L \in BagToSet(orphans) : ResumeOrphan(L)

\* two users; a city that is accepted, one that wins after it, and a text
\* that is no city
FairChats == {1}
FairUsers == {1, 2}
FairTexts == {Narva, Anapa, Tula}
NextFair == NextOn(FairUsers, FairTexts)

\* a handler is called
Arrival ==
    \/ \E c \in chats, u \in FairUsers : cmd_start(c, u) \/ cmd_join(c, u)
    \/ \E c \in chats, u \in FairUsers, t \in FairTexts : handle_text(c, u, t)
    \/ \E c \in chats : cmd_restart(c)

SpecFair == InitWith(FairChats) /\ [][NextFair]_vars /\ Fairness(FairChats)

\* C11: a handler that leaves its block, by return, by falling out of it or
\* by an exception, releases the lock it held: the step that ends a block
\* leaves one holder less, a block that runs without a suspension leaves no
\* holder behind, and when no handler of the chats is in flight every lock is
\* free; a lock that has waiters is handed to its first waiter, and the
\* waiter that was handed a lock enters its block.
Waited(c) ==
    \E L \in AllLocks : L.waiters # <<>> /\ L.owner.chat = c

Woken(c) ==
    \E L \in AllLocks : L.owner.pc = "woken" /\ L.owner.chat = c

\* the handlers suspended inside a block
RECURSIVE InsideAll(_)
InsideAll(S) ==
    IF S = {} THEN 0
    ELSE LET c == CHOOSE k \in S : TRUE IN InsideCount(c) + InsideAll(S \ {c})

\* the answers of a block that ran to its end without a suspension
RanThrough(e) ==
    /\ e.op \in Ops
    /\ \/ e.out \in {"lobby_created", "joined", "move_accepted", "reset", "error"}
       \/ e.op = "text" /\ e.out = "no_active_game"

C11_GuardReleased ==
    /\ [](/\ Total(chats) = 0
               => orphans = EmptyBag /\ \A c \in DOMAIN locks : locks[c] = FreeLock
           /\ BagToSet(orphans) \subseteq LocksInside(chats) \cup LocksWoken(chats))
    /\ [][/\ ev'.op \in {"resume", "cleanup"}
                => /\ Total(chats)' = Total(chats) - 1
                   /\ InsideAll(chats)' = InsideAll(chats) - 1
          /\ RanThrough(ev')
                => /\ Total(chats)' <= Total(chats)
                   /\ InsideAll(chats)' = InsideAll(chats)]_vars
    /\ \A c \in FairChats : Waited(c) ~> Woken(c)
    /\ []<>(Total(chats) = 0) \/ []<><<Arrival>>_vars

\* a rejected first move has left its block with an exception and the lock
\* of the chat is free
C11_Witness ==
    /\ ev.op = "text" /\ ev.out = "error"
    /\ ev.chat \in DOMAIN locks /\ locks[ev.chat] = FreeLock
    /\ orphans = EmptyBag

\* C12: no handler ends with an exception: neither the rejection of a move
\* (the reasons dict is built with g.need_letter.upper()) nor the cleanup
\* after a winning move (del games[chat_id]; del locks[chat_id]) raises.
C12_NothingThrown == ev.out # "error"

\* C13: no status query finds a session for which has_moves is false, that
\* is, a session whose winning move was applied and which is not removed yet.
C13_FinishedNeverObserved ==
    ~(/\ ev.op = "status" /\ ev.out = "status_snapshot"
      /\ ev.chat \in DOMAIN games
      /\ ~has_moves(games[ev.chat]))

\* two chats served by the same process
TwoChats == {1, 2}

\* handler coroutines in flight at the same time when two chats are served
TwoChatsProcs == 2

\* a city that wins at once and a text that is no city
TwoChatsTexts == {Anapa, Tula}
NextTwoChats == NextOn(FairUsers, TwoChatsTexts) /\ Total(chats)' <= TwoChatsProcs
SpecTwoChats == InitWith(TwoChats) /\ [][NextTwoChats]_vars

\* C14: a handler of a chat waits only for a lock that a handler of the same
\* chat holds or was handed: every lock is used by the handlers of one chat
\* only, and a handler that arrives while no handler of its chat is in flight
\* enters its block at once, whatever the handlers of the other chats do.
OneChatPerLock(L) ==
    /\ \A i \in 1..Len(L.waiters) :
          L.owner # NoOwner /\ L.waiters[i].chat = L.owner.chat
    /\ L.owner # NoOwner => L.owner.chat \in chats

C14_ChatsIndependent ==
    /\ [](/\ \A L \in AllLocks : OneChatPerLock(L)
          /\ \A c \in DOMAIN locks :
                locks[c].owner # NoOwner => locks[c].owner.chat = c)
    /\ [][ev'.out = "waiting"
             => /\ InFlight(ev'.chat) > 0
                /\ ev'.chat \in DOMAIN locks
                /\ locks[ev'.chat].owner # NoOwner
                /\ locks[ev'.chat].owner.chat = ev'.chat
                /\ \A c \in chats \ {ev'.chat} : InFlight(c)' = InFlight(c)]_vars

\* a handler of chat 1 ran its block while a handler of chat 2 was suspended
\* in the reply inside its own block, holding the lock of chat 2
C14_Witness ==
    /\ ev.chat = 1 /\ ev.op = "join" /\ ev.out = "joined"
    /\ 2 \in DOMAIN locks /\ Inside(locks[2]) /\ locks[2].owner.chat = 2

\* C15: as long as a session is registered its used set only grows: a step
\* leaves used as it was unless it is an accepted move of that chat, and an
\* accepted move adds exactly the normalized city that was sent; the session
\* registered for a chat stays the same object until it is removed.
C15_UsedMonotone ==
    [][\A c \in DOMAIN games \cap DOMAIN games' :
          /\ games'[c].sid = games[c].sid
          /\ games[c].used \subseteq games'[c].used
          /\ IF Accepted(ev') /\ ev'.chat = c
             THEN /\ normalize_text(ev'.text) \notin games[c].used
                  /\ games'[c].used = games[c].used \cup {normalize_text(ev'.text)}
             ELSE games'[c].used = games[c].used]_vars

\* a move was rejected in a session that has two used cities, which it kept
C15_Witness ==
    /\ ev.op = "text" /\ ev.out = "move_rejected"
    /\ ev.chat \in DOMAIN games
    /\ Cardinality(games[ev.chat].used) = 2
    /\ normalize_text(ev.text) \in games[ev.chat].used

\* ------------------------------------------------------------------------
\* The index of any list of raw names
\* ------------------------------------------------------------------------
\* entries of the list given to build_city_index
MaxCities == 3

\* CITIES, CITIES_BY_FIRST = build_city_index(RAW_CITIES), for a list cities
Indexed(cities) ==
    [op |-> "build_city_index", cities |-> cities, index |-> build_city_index(cities)]

InitIndex ==
    /\ chats = {}
    /\ games = <<>>
    /\ locks = <<>>
    /\ orphans = EmptyBag
    /\ ev = Indexed(<<>>)

\* the list has one more entry
LongerList(t) ==
    /\ ev.op = "build_city_index"
    /\ Len(ev.cities) < MaxCities
    /\ ev' = Indexed(Append(ev.cities, t))
    /\ UNCHANGED <<chats, games, locks, orphans>>

NextIndex == \E t \in ProbeTexts : LongerList(t)

SpecIndex == InitIndex /\ [][NextIndex]_vars

\* C16: the buckets of the index partition the set of the non-empty
\* normalized names: their union is that set, every name is in the bucket of
\* its first character and in no other, and no bucket is empty.
C16_IndexPartition ==
    ev.op = "build_city_index" =>
       /\ ev.index[1] = {normalize_text(t) : t \in Range(ev.cities)} \ {<<>>}
       /\ UNION {ev.index[2][l] : l \in DOMAIN ev.index[2]} = ev.index[1]
       /\ \A n \in ev.index[1] :
             /\ n # <<>>
             /\ n[1] \in DOMAIN ev.index[2]
             /\ \A l \in DOMAIN ev.index[2] : (n \in ev.index[2][l]) = (l = n[1])
       /\ \A l \in DOMAIN ev.index[2] : ev.index[2][l] # {}

\* a list of three entries, one of them blank, the other two different names
\* with the same first character
C16_Witness ==
    /\ ev.op = "build_city_index" /\ Len(ev.cities) = 3
    /\ \E i \in 1..3 : normalize_text(ev.cities[i]) = <<>>
    /\ \E l \in DOMAIN ev.index[2] : Cardinality(ev.index[2][l]) = 2

\* C17: a registered session has no required letter exactly as long as no
\* move was accepted in it (used is empty); after that the required letter
\* is last_working_letter of the city accepted last, which is a letter that
\* is not in TAIL_SKIP.
C17_NeedLetter ==
    \A c \in DOMAIN games :
        /\ (games[c].need_letter = None) = (games[c].used = {})
        /\ (games[c].used = {}) = (games[c].log = <<>>)
        /\ games[c].log # <<>>
              => /\ games[c].need_letter
                      = last_working_letter(games[c].log[Len(games[c].log)])
                 /\ games[c].need_letter \notin TAIL_SKIP

\* the city accepted last ends with a letter of TAIL_SKIP, and the letter
\* required is the one before it
C17_Witness ==
    \E c \in DOMAIN games :
        /\ games[c].log # <<>>
        /\ games[c].log[Len(games[c].log)][Len(games[c].log[Len(games[c].log)])]
              \in TAIL_SKIP
        /\ games[c].need_letter = "n"
        /\ Accepted(ev) /\ ev.chat = c

\* C18: games and locks always have the same keys; a key is added to either
\* of them only by a cmd_start that creates a session, and removed only by
\* the cleanup of a winning move or by cmd_restart; a join, text, status or
\* restart of a chat without session adds no key.
C18_RegistryLifecycle ==
    /\ [](DOMAIN games = DOMAIN locks)
    /\ [][/\ \A c \in (DOMAIN games' \ DOMAIN games) \cup (DOMAIN locks' \ DOMAIN locks) :
                ev'.op = "start" /\ ev'.out = "lobby_created" /\ ev'.chat = c
          /\ \A c \in (DOMAIN games \ DOMAIN games') \cup (DOMAIN locks \ DOMAIN locks') :
                /\ ev'.chat = c
                /\ ev'.op = "cleanup" \/ (ev'.op = "restart" /\ ev'.out = "reset")
          /\ (ev'.op \in {"join", "text", "status", "restart"}
                /\ ev'.chat \notin DOMAIN games)
                => /\ ev'.chat \notin DOMAIN games'
                   /\ ev'.chat \notin DOMAIN locks']_vars

\* a join of a chat without session is in its block, under a lock that is
\* not registered, and games and locks are empty
C18_Witness ==
    /\ ev.op = "join" /\ ev.out = "no_active_game"
    /\ DOMAIN games = {} /\ DOMAIN locks = {}
    /\ \E L \in BagToSet(orphans) : Inside(L) /\ L.owner.chat = ev.chat

\* C19: in a session in which a move was accepted, has_moves is true exactly
\* when some text exists that validate_move answers with ok; so after an
\* accepted move that did not end the game the next player has a valid move.
Submissions == ProbeTexts \cup CITIES

ValidMoves(g) == {t \in Submissions : validate_move(g, t) = <<TRUE, "ok">>}

C19_HasMovesIffValidMove ==
    /\ \A c \in DOMAIN games :
          games[c].log # <<>> => (has_moves(games[c]) = (ValidMoves(games[c]) # {}))
    /\ (ev.op = "text" /\ ev.out = "move_accepted")
          => /\ ev.chat \in DOMAIN games
             /\ has_moves(games[ev.chat])
             /\ ValidMoves(games[ev.chat]) # {}

\* a move was accepted after which exactly one city of the dictionary is a
\* valid move
C19_Witness ==
    /\ ev.op = "text" /\ ev.out = "move_accepted"
    /\ ev.chat \in DOMAIN games
    /\ Cardinality(ValidMoves(games[ev.chat]) \cap CITIES) = 1

\* the number of locks alive that are equal to L
LockCount(L) ==
    CopiesIn(L, orphans) + Cardinality({c \in DOMAIN locks : locks[c] = L})

\* C20: the cleanup of a winning move removes the session in which the move
\* was played: the session that "del games[chat_id]" removes is the Game the
\* handler that runs it holds in g.
C20_CleanupOwnSession ==
    [][(ev'.op = "cleanup" /\ ev'.chat \in DOMAIN games)
          => \E L \in AllLocks :
                /\ L.owner.pc = "winReply"
                /\ L.owner.chat = ev'.chat
                /\ LockCount(L)' < LockCount(L)
                /\ L.owner.sid = games[ev'.chat].sid]_vars
=============================================================================
